---------------------------- MODULE Spec2Model ----------------------------
(***************************************************************************)
(* Model of mailingset/service.py: the per-connection delivery pipeline of *)
(* the Mailing Set SMTP server (SetMessageDelivery.validateFrom,           *)
(* SetMessageDelivery.validateTo, SetMessage and its header rewrite).      *)
(*                                                                         *)
(* Text (str) is a string; a bytes object b'..' is the record             *)
(* [bytes |-> ".."], so that formatting ('%s' % x), encode/decode and      *)
(* prefix tests are computed, not assumed.  Python objects that are shared *)
(* by reference (the recipient set returned by the resolver) live in       *)
(* `heap` and are named by their index.                                    *)
(***************************************************************************)
EXTENDS Integers, Sequences, FiniteSets, TLC

VARIABLES
    config,   \* the ConfigParser object shared by every handler
    heap,     \* the set objects handed out by the resolver, by reference
    ctors,    \* the zero-argument callables returned by validateTo
    accs,     \* the SetMessage objects created so far, each with the calls
              \* it has made to the injected sendmail collaborator
    last,     \* the outcome of the most recent call (return value or raise)
    msg       \* the email Message object handed to _munge_header on its own

vars == <<config, heap, ctors, accs, last, msg>>

-----------------------------------------------------------------------------
(* Bounds of the model *)

MaxCidrs == 2      \* entries of incoming.accept_from
MaxCtors == 1      \* accepted recipients (callables returned by validateTo)
MaxAccs == 1       \* SetMessage objects
MaxLines == 1      \* lines fed to one SetMessage
MaxHdrs == 2       \* headers of a message handed to the header rewrite
MaxMunge == 2      \* repeated header rewrites of one message

-----------------------------------------------------------------------------
(* Sequence helpers *)

SeqsUpTo(S, n) == UNION {[1..k -> S] : k \in 0..n}

StartsWith(s, p) == Len(p) <= Len(s) /\ SubSeq(s, 1, Len(p)) = p

Min(a, b) == IF a < b THEN a ELSE b
Max(a, b) == IF a > b THEN a ELSE b

RECURSIVE Pow2(_)
Pow2(n) == IF n = 0 THEN 1 ELSE 2 * Pow2(n - 1)

-----------------------------------------------------------------------------
(* Python text formatting *)

\* str.encode() and bytes.decode() of ASCII text
encode(s) == [bytes |-> s]
decode(b) == b.bytes

\* str(b) / '%s' % (b,) of a bytes object under Python 3: its repr, b'...'
BytesStr(b) == "b'" \o b.bytes \o "'"

\* str.lower() on the names the model uses
Lower(s) ==
    CASE s = "LISTS.EXAMPLE.COM" -> "lists.example.com"
      [] s = "Subject" -> "subject"
      [] s = "Precedence" -> "precedence"
      [] s = "List-Id" -> "list-id"
      [] s = "LIST-ID" -> "list-id"
      [] s = "List-Post" -> "list-post"
      [] OTHER -> s

-----------------------------------------------------------------------------
(* Configuration (ConfigParser): the options present and their values *)

has_option(c, key) == key \in c.options

Cidr(a, b, c, d, len) == [ip |-> <<a, b, c, d>>, prefixlen |-> len]

\* the fallback of config.get('incoming', 'accept_from', fallback='0.0.0.0/0')
FallbackCidr == Cidr(0, 0, 0, 0, 0)

CidrEntries ==
    { Cidr(10, 0, 0, 0, 8), Cidr(192, 168, 0, 0, 16),
      Cidr(10, 1, 2, 0, 23), Cidr(172, 16, 0, 0, 12) }

ClientIPs ==
    { <<10, 1, 2, 3>>, <<192, 168, 1, 1>>, <<10, 1, 3, 7>>,
      <<172, 31, 0, 9>>, <<8, 8, 8, 8>> }

ConfigDomain == "lists.example.com"
ArchiveAddr == "archive@x.com"

BaseConfig ==
    [ domain |-> ConfigDomain,
      accept_from |-> <<Cidr(10, 0, 0, 0, 8)>>,
      archive_addr |-> ArchiveAddr,
      server |-> "smtp.example.com",
      port |-> 25,
      envelope_sender |-> "bounce@lists.example.com",
      options |-> {} ]

\* the configurations of the pipeline specification
Configs ==
    { [BaseConfig EXCEPT !.options = o \cup {"accept_from"}] :
        o \in SUBSET {"archive_addr", "server"} }

\* the configurations of the sender-validation specification
FromConfigs ==
    { [BaseConfig EXCEPT !.options = {"server"}] }
    \cup { [BaseConfig EXCEPT !.options = {"accept_from", "server"},
                              !.accept_from = l] :
             l \in (SeqsUpTo(CidrEntries, MaxCidrs) \ {<<>>}) }

-----------------------------------------------------------------------------
(* SetMessageDelivery.validateFrom *)

\* the bits of the network prefix that fall into octet k (1..4)
PrefixBits(len, k) == Max(0, Min(8, len - 8 * (k - 1)))

\* client_ip in netaddr.IPNetwork(cidr): equal under the network mask
InNetwork(ip, cidr) ==
    \A k \in 1..4 :
        LET drop == Pow2(8 - PrefixBits(cidr.prefixlen, k))
        IN  ip[k] \div drop = cidr.ip[k] \div drop

accept_from(c) ==
    IF has_option(c, "accept_from") THEN c.accept_from ELSE <<FallbackCidr>>

RECURSIVE validateFromLoop(_, _, _)
validateFromLoop(good, ip, i) ==
    IF i > Len(good)
    THEN [op |-> "validateFrom", ip |-> ip, raised |-> "SMTPBadSender",
          arg |-> ip, matched |-> 0]
    ELSE IF InNetwork(ip, good[i])
         THEN [op |-> "validateFrom", ip |-> ip, raised |-> "",
               arg |-> <<>>, matched |-> i]
         ELSE validateFromLoop(good, ip, i + 1)

\* a faulty variant: only the first entry of the allow-list is tested
validateFromFirstOnly(c, ip) ==
    validateFromLoop(SubSeq(accept_from(c), 1, 1), ip, 1)

validateFromResult(c, ip) == validateFromLoop(accept_from(c), ip, 1)

validateFrom(ip) ==
    /\ last' = validateFromResult(config, ip)
    /\ UNCHANGED <<config, heap, ctors, accs, msg>>

-----------------------------------------------------------------------------
(* The resolver (mailingset.state / mailingset.parser, external to this    *)
(* file): parse(address) returns (subject_tag, recipient_set) or raises    *)
(* SyntaxError with a message.                                             *)

\* smtp.User: user.dest.local and user.dest.domain are bytes
User(l, d) == [local |-> encode(l), domain |-> encode(d)]

Users ==
    { User("eng+sales", ConfigDomain), User("arch", ConfigDomain),
      User("a&&b", ConfigDomain), User("eng+sales", "LISTS.EXAMPLE.COM"),
      User("a&&b", "other.org") }

parse(address) ==
    CASE address = "eng+sales" ->
            [ok |-> TRUE, subject_tag |-> "eng+sales",
             recipient_set |-> {"e1@x.com", "s1@x.com"}, error |-> ""]
      [] address = "arch" ->
            [ok |-> TRUE, subject_tag |-> "arch",
             recipient_set |-> {"e1@x.com", ArchiveAddr}, error |-> ""]
      [] OTHER ->
            [ok |-> FALSE, subject_tag |-> "", recipient_set |-> {},
             error |-> "unexpected token '&' in " \o address]

-----------------------------------------------------------------------------
(* SetMessageDelivery.validateTo *)

\* a faulty variant: the domain is compared without regard to case
domainMismatchIgnoreCase(domain, c) == Lower(decode(domain)) # Lower(c.domain)

\* domain != self.config.get('incoming', 'domain').encode()
domainMismatch(domain, c) == domain # encode(c.domain)

\* a faulty variant: the rejection text is the log line, not the error's message
parseErrorReasonLogLine(local, error) ==
    "Rejecting address " \o BytesStr(local) \o ": " \o error

\* reason = str(error)
parseErrorReason(local, error) == error

\* What validateTo(user) does: raise SMTPBadRcpt(user, resp=reason), or
\* return the callable  lambda: SetMessage(config, local, subject_tag,
\* recipient_set, sendmail).
validateToResult(c, user) ==
    IF domainMismatch(user.domain, c)
    THEN [op |-> "validateTo", user |-> user, raised |-> "SMTPBadRcpt",
          cause |-> "domain",
          resp |-> "Incorrect domain: " \o BytesStr(user.domain)]
    ELSE LET r == parse(decode(user.local))
         IN  IF ~r.ok
             THEN [op |-> "validateTo", user |-> user,
                   raised |-> "SMTPBadRcpt", cause |-> "parse",
                   resp |-> parseErrorReason(user.local, r.error)]
             ELSE [op |-> "validateTo", user |-> user, raised |-> "",
                   cause |-> "", resp |-> ""]

\* the callable returned on success; recipient_set is a reference into heap
Lambda(c, user, ref) ==
    [ address |-> user.local,
      subject_tag |-> parse(decode(user.local)).subject_tag,
      recipient_set |-> ref ]

\* validateTo in a transaction of at most n accepted recipients
validateToUpTo(user, n) ==
    LET r == validateToResult(config, user)
    IN  /\ last' = r
        /\ IF r.raised = ""
           THEN /\ Len(ctors) < n
                /\ heap' = Append(heap, parse(decode(user.local)).recipient_set)
                /\ ctors' = Append(ctors, Lambda(config, user, Len(heap) + 1))
           ELSE UNCHANGED <<heap, ctors>>
        /\ UNCHANGED <<config, accs, msg>>

validateTo(user) == validateToUpTo(user, MaxCtors)

-----------------------------------------------------------------------------
(* SetMessage: construction and line buffering *)

\* self.msg_parser is either None or an email.parser.FeedParser holding the
\* text fed so far
None == [none |-> TRUE]
FeedParser(fed) == [fed |-> fed]

Hdr(name, value) == [kind |-> "header", name |-> name, value |-> value]
Blank == [kind |-> "blank", name |-> "", value |-> ""]
Text(t) == [kind |-> "text", name |-> "", value |-> t]

\* the lines a client may send
Lines ==
    { Hdr("Subject", "hello"), Hdr("list-id", "<old.list>"),
      Blank, Text("body") }

\* a faulty variant: the object is built with the parser already released
SetMessageNoParser(ctor, k) ==
    [ ctor |-> k, address |-> ctor.address, subject_tag |-> ctor.subject_tag,
      recipient_set |-> ctor.recipient_set, msg_parser |-> None,
      lost |-> FALSE, sent |-> <<>> ]

\* SetMessage.__init__ as called by the lambda; `lost` and `sent` are
\* history: connectionLost was called before any eomReceived returned, and
\* the calls this object has made to self.sendmail.
SetMessage(ctor, k) ==
    [ ctor |-> k, address |-> ctor.address, subject_tag |-> ctor.subject_tag,
      recipient_set |-> ctor.recipient_set,
      msg_parser |-> FeedParser(<<>>),
      lost |-> FALSE, sent |-> <<>> ]

\* the protocol layer calls the callable returned by validateTo, for at
\* most n messages
invokeUpTo(k, n) ==
    /\ k \in 1..Len(ctors)
    /\ Len(accs) < n
    /\ accs' = Append(accs, SetMessage(ctors[k], k))
    /\ last' = [op |-> "invoke", ctor |-> k, acc |-> Len(accs) + 1,
                raised |-> ""]
    /\ UNCHANGED <<config, heap, ctors, msg>>

invoke(k) == invokeUpTo(k, MaxAccs)

\* a faulty variant: a released parser is replaced by a new one on the next line
lineReceivedReopen(i, line) ==
    /\ i \in 1..Len(accs)
    /\ accs[i].msg_parser = None \/ Len(accs[i].msg_parser.fed) < MaxLines
    /\ accs' = [accs EXCEPT ![i].msg_parser =
            IF @ = None THEN FeedParser(<<line>>)
            ELSE FeedParser(Append(@.fed, line))]
    /\ last' = [op |-> "lineReceived", acc |-> i, raised |-> ""]
    /\ UNCHANGED <<config, heap, ctors, msg>>

\* self.msg_parser.feed(line); self.msg_parser.feed('\n')
lineReceived(i, line) ==
    /\ i \in 1..Len(accs)
    /\ IF accs[i].msg_parser = None
       THEN /\ last' = [op |-> "lineReceived", acc |-> i,
                        raised |-> "AttributeError"]
            /\ UNCHANGED accs
       ELSE /\ Len(accs[i].msg_parser.fed) < MaxLines
            /\ accs' = [accs EXCEPT ![i].msg_parser =
                            FeedParser(Append(@.fed, line))]
            /\ last' = [op |-> "lineReceived", acc |-> i, raised |-> ""]
    /\ UNCHANGED <<config, heap, ctors, msg>>

-----------------------------------------------------------------------------
(* email.message.Message: an ordered list of headers and a payload *)

Message(headers, payload) == [headers |-> headers, payload |-> payload]

\* the indices of the headers called `name`, compared without regard to case
Matching(m, name) ==
    {i \in 1..Len(m.headers) : Lower(m.headers[i].name) = Lower(name)}

\* a faulty variant: membership compares the header names as they are spelled
containsExactCase(m, name) ==
    {i \in 1..Len(m.headers) : m.headers[i].name = name} # {}

\* name in msg
contains(m, name) == Matching(m, name) # {}

RECURSIVE Without(_, _, _)
Without(hs, drop, i) ==
    IF i > Len(hs) THEN <<>>
    ELSE IF i \in drop THEN Without(hs, drop, i + 1)
    ELSE <<hs[i]>> \o Without(hs, drop, i + 1)

\* a faulty variant: del msg[name] removes only the headers spelled exactly `name`
delitemExactCase(m, name) ==
    [m EXCEPT !.headers =
        Without(@, {i \in 1..Len(m.headers) : m.headers[i].name = name}, 1)]

\* del msg[name]: removes every header called `name`; none is no error
delitem(m, name) == [m EXCEPT !.headers = Without(@, Matching(m, name), 1)]

\* msg[name] = value: appends a header, whatever is already there
setitem(m, name, value) ==
    [m EXCEPT !.headers = Append(@, [name |-> name, value |-> value])]

\* FeedParser.close(): the leading header lines are the headers; one blank
\* line after them is the separator; everything else is the payload
RECURSIVE HeaderCount(_)
HeaderCount(fed) ==
    IF fed # <<>> /\ Head(fed).kind = "header"
    THEN 1 + HeaderCount(Tail(fed)) ELSE 0

close(fed) ==
    LET n == HeaderCount(fed)
        rest == SubSeq(fed, n + 1, Len(fed))
    IN  Message([i \in 1..n |-> [name |-> fed[i].name, value |-> fed[i].value]],
                IF rest # <<>> /\ Head(rest).kind = "blank"
                THEN Tail(rest) ELSE rest)

\* a faulty variant: the payload follows the headers without the empty line
as_stringNoSeparator(m) ==
    [i \in 1..Len(m.headers) |-> Hdr(m.headers[i].name, m.headers[i].value)]
    \o m.payload

\* msg.as_string(): the headers, the separator, the payload
as_string(m) ==
    [i \in 1..Len(m.headers) |-> Hdr(m.headers[i].name, m.headers[i].value)]
    \o <<Blank>> \o m.payload

-----------------------------------------------------------------------------
(* mailman.subject_prefix.SubjectPrefix.process (external to this file):   *)
(* prepends the tag to the Subject unless the Subject already starts with  *)
(* it; raises UnicodeError / ValueError when the new value cannot be       *)
(* encoded.                                                                *)

Unencodable == {"caf\\udce9"}

\* a faulty variant: the tag is prepended whatever the Subject starts with
SubjectPrefix_prepend(tag, m) ==
    LET S == Matching(m, "subject")
        i == CHOOSE j \in S : \A k \in S : j <= k
    IN  IF S = {} THEN [raised |-> "", msg |-> m]
        ELSE IF m.headers[i].value \in Unencodable
        THEN [raised |-> "UnicodeError", msg |-> m]
        ELSE [raised |-> "",
              msg |-> [m EXCEPT !.headers[i].value = tag \o @]]

SubjectPrefix_process(tag, m) ==
    LET S == Matching(m, "subject")
        i == CHOOSE j \in S : \A k \in S : j <= k
    IN  IF S = {} THEN [raised |-> "", msg |-> m]
        ELSE IF StartsWith(m.headers[i].value, tag)
        THEN [raised |-> "", msg |-> m]
        ELSE IF m.headers[i].value \in Unencodable
        THEN [raised |-> "UnicodeError", msg |-> m]
        ELSE [raised |-> "",
              msg |-> [m EXCEPT !.headers[i].value = tag \o @]]

-----------------------------------------------------------------------------
(* SetMessage._munge_header *)

\* a faulty variant: the full recipient address is formatted into List-Id
ListIdFullAddress(address, domain) ==
    "<" \o decode(address) \o "@" \o domain \o ".mailingset." \o domain \o ">"

\* '<%s.mailingset.%s>' % (self.address, domain); self.address is bytes
ListId(address, domain) ==
    "<" \o BytesStr(address) \o ".mailingset." \o domain \o ">"

\* '<mailto:%s@%s>' % (self.address, domain)
ListPost(address, domain) ==
    "<mailto:" \o BytesStr(address) \o "@" \o domain \o ">"

\* '[%s] ' % (self.subject_tag,)
Tag(subject_tag) == "[" \o subject_tag \o "] "

\* a faulty variant: a Subject that cannot be encoded ends the rewrite
munge_headerGiveUp(m, self, c) ==
    LET r == SubjectPrefix_process(Tag(self.subject_tag), m)
        m2 == IF ~contains(r.msg, "precedence")
              THEN setitem(r.msg, "Precedence", "list") ELSE r.msg
        m3 == setitem(delitem(m2, "list-id"), "List-Id",
                      ListId(self.address, c.domain))
    IN  IF r.raised # "" THEN m
        ELSE setitem(delitem(m3, "list-post"), "List-Post",
                     ListPost(self.address, c.domain))

munge_header(m, self, c) ==
    LET r == SubjectPrefix_process(Tag(self.subject_tag), m)
        m1 == IF r.raised = "" THEN r.msg ELSE m
        m2 == IF ~contains(m1, "precedence")
              THEN setitem(m1, "Precedence", "list") ELSE m1
        m3 == setitem(delitem(m2, "list-id"), "List-Id",
                      ListId(self.address, c.domain))
    IN  setitem(delitem(m3, "list-post"), "List-Post",
                ListPost(self.address, c.domain))

-----------------------------------------------------------------------------
(* SetMessage.eomReceived and SetMessage.connectionLost *)

\* a faulty variant: the parser is kept after the message is finalized
keepParser(self) == self

\* self.msg_parser = None  (eomReceived)
releaseParser(self) == [self EXCEPT !.msg_parser = None]

\* a faulty variant: a lost connection leaves the buffer in place
keepBuffer(self) == self

\* self.msg_parser = None  (connectionLost)
discardParser(self) == [self EXCEPT !.msg_parser = None]

\* a faulty variant: the archive address is never added
recpNoArchive(c, h, ref) == h

\* recp = self.recipient_set; recp |= set([archive_addr]): the union is made
\* in place, on the object the accumulator shares with its constructor
recp(c, h, ref) ==
    IF has_option(c, "archive_addr")
    THEN [h EXCEPT ![ref] = @ \cup {c.archive_addr}]
    ELSE h

\* self.sendmail(outgoing_server, envelope_sender, recp, msg.as_string(),
\*               port=outgoing_port)
sendmail(c, to_ref, to_addrs, text) ==
    [ host |-> c.server, from_addr |-> c.envelope_sender,
      to_ref |-> to_ref, to_addrs |-> to_addrs, text |-> text,
      port |-> c.port ]

-----------------------------------------------------------------------------
(* twisted.internet.defer.Deferred, as far as eomReceived uses it: a chain  *)
(* of (callback, errback) pairs run in the order they were attached         *)

Callable(fn, text) == [fn |-> fn, text |-> text]

Passthru == Callable("passthru", "")

\* the handle self.sendmail returns: not fired yet, nothing attached
Deferred == [called |-> FALSE, result |-> "", callbacks |-> <<>>]

addCallbacks(d, f, g) ==
    [d EXCEPT !.callbacks = Append(@, [callback |-> f, errback |-> g])]

addCallback(d, f) == addCallbacks(d, f, Passthru)

addErrback(d, g) == addCallbacks(d, Passthru, g)

\* a faulty variant: the continuation hands on what it was called with
returnsArgument(f, arg) == arg

\* log.msg and log.err return None, which becomes the result of the handle
returns(f, arg) == "None"

\* Deferred._runCallbacks: a Failure goes to the errback of the next pair,
\* anything else to its callback; `ran` lists the continuations that ran
RECURSIVE runCallbacks(_, _, _)
runCallbacks(callbacks, result, ran) ==
    IF callbacks = <<>> THEN [result |-> result, ran |-> ran]
    ELSE LET f == IF result = "Failure" THEN Head(callbacks).errback
                  ELSE Head(callbacks).callback
         IN  IF f = Passthru
             THEN runCallbacks(Tail(callbacks), result, ran)
             ELSE runCallbacks(Tail(callbacks), returns(f, result),
                      Append(ran, [fn |-> f.fn, text |-> f.text,
                                   arg |-> result]))

\* a faulty variant: the failure continuation is attached as a second callback
attachCallbackTwice(send, self) ==
    addCallback(
        addCallback(send,
            Callable("log.msg", "Success " \o BytesStr(self.address))),
        Callable("log.err", "Failure " \o BytesStr(self.address)))

\* a faulty variant: no failure continuation is attached
attachNoErrback(send, self) ==
    addCallback(send,
        Callable("log.msg", "Success " \o BytesStr(self.address)))

\* send.addCallback(log.msg, 'Success %s' % (self.address,))
\* send.addErrback(log.err, 'Failure %s' % (self.address,))
attach(send, self) ==
    addErrback(
        addCallback(send,
            Callable("log.msg", "Success " \o BytesStr(self.address))),
        Callable("log.err", "Failure " \o BytesStr(self.address)))

\* the protocol layer sequences the acknowledgment of the DATA phase on the
\* handle eomReceived returns: accepted when it succeeds, refused when it fails
protocol(send) ==
    addCallbacks(send, Callable("sendCode", "250 Delivery in progress"),
                       Callable("sendCode", "550 Could not send e-mail"))

\* log.msg('Subject: %s' % (str(msg['Subject']),))
\* log.msg('Sending to: %s' % (', '.join(recp),))
logged(m, to_addrs) ==
    LET S == Matching(m, "subject")
    IN  [ subject |-> "Subject: " \o
              (IF S = {} THEN "None"
               ELSE m.headers[CHOOSE j \in S : \A k \in S : j <= k].value),
          sending_to |-> to_addrs ]

eomReceived(i) ==
    /\ i \in 1..Len(accs)
    /\ IF accs[i].msg_parser = None
       THEN \* None has no close(): the call raises before anything is done
            /\ last' = [op |-> "eomReceived", acc |-> i,
                        raised |-> "AttributeError"]
            /\ UNCHANGED <<accs, heap>>
       ELSE LET self == accs[i]
                m == munge_header(close(self.msg_parser.fed), self, config)
                h == recp(config, heap, self.recipient_set)
            IN  /\ heap' = h
                /\ IF ~has_option(config, "server")
                   THEN \* config.get('outgoing', 'server') raises
                        /\ accs' = [accs EXCEPT ![i] = releaseParser(self)]
                        /\ last' = [op |-> "eomReceived", acc |-> i,
                                    raised |-> "NoOptionError"]
                   ELSE /\ accs' = [accs EXCEPT ![i] =
                                [releaseParser(self) EXCEPT !.sent = Append(@,
                                    sendmail(config, self.recipient_set,
                                        h[self.recipient_set], as_string(m))
                                    @@ [ log |-> logged(m, h[self.recipient_set]),
                                         send |-> protocol(attach(Deferred, self)) ])]]
                        /\ last' = [op |-> "eomReceived", acc |-> i,
                                    raised |-> ""]
    /\ UNCHANGED <<config, ctors, msg>>

\* the outbound send ends: send.callback(result) or send.errback(failure)
\* runs the continuations attached to the handle; a handle fires once
fire(i, result) ==
    /\ i \in 1..Len(accs)
    /\ accs[i].sent # <<>>
    /\ LET k == Len(accs[i].sent)
           send == accs[i].sent[k].send
           r == runCallbacks(send.callbacks, result, <<>>)
       IN  /\ ~send.called
           /\ accs' = [accs EXCEPT ![i].sent[k].send =
                           [called |-> TRUE, result |-> r.result,
                            callbacks |-> <<>>]]
           /\ last' = [op |-> IF result = "Failure" THEN "errback"
                                ELSE "callback",
                       acc |-> i, raised |-> "", ran |-> r.ran]
    /\ UNCHANGED <<config, heap, ctors, msg>>

\* a faulty variant: a lost connection discards every message of the transaction
connectionLostAll(i) ==
    /\ i \in 1..Len(accs)
    /\ accs' = [j \in 1..Len(accs) |->
            [discardParser(accs[j]) EXCEPT !.lost = @ \/ accs[j].sent = <<>>]]
    /\ last' = [op |-> "connectionLost", acc |-> i, raised |-> ""]
    /\ UNCHANGED <<config, heap, ctors, msg>>

connectionLost(i) ==
    /\ i \in 1..Len(accs)
    /\ accs' = [accs EXCEPT ![i] =
            [discardParser(accs[i]) EXCEPT
                !.lost = @ \/ accs[i].sent = <<>>]]
    /\ last' = [op |-> "connectionLost", acc |-> i, raised |-> ""]
    /\ UNCHANGED <<config, heap, ctors, msg>>

-----------------------------------------------------------------------------
(* The pipeline specification: one delivery handler and its messages *)

\* `msg` holds a Message with its history: the headers it started with, the
\* number of rewrites applied and the address of the latest one
Rewritten(m, orig, n, by) ==
    [headers |-> m.headers, payload |-> m.payload, orig |-> orig,
     rewrites |-> n, by |-> by]

NoMsg == Rewritten(Message(<<>>, <<>>), <<>>, 0, encode(""))

Init ==
    /\ config \in Configs
    /\ heap = <<>>
    /\ ctors = <<>>
    /\ accs = <<>>
    /\ last = [op |-> "", raised |-> ""]
    /\ msg = NoMsg

Next ==
    \/ \E user \in Users : validateTo(user)
    \/ \E k \in 1..MaxCtors : invoke(k)
    \/ \E i \in 1..MaxAccs, line \in Lines : lineReceived(i, line)
    \/ \E i \in 1..MaxAccs : eomReceived(i)
    \/ \E i \in 1..MaxAccs : connectionLost(i)

Spec == Init /\ [][Next]_vars

-----------------------------------------------------------------------------
(* The dispatch specification: a transaction of up to two accepted         *)
(* recipients, its messages, and the outbound sends ending either way      *)

DispatchLines ==
    { Hdr("Subject", "hello"), Hdr("Subject", "caf\\udce9"), Text("body") }

NextDispatch ==
    \/ \E user \in {u \in Users : validateToResult(BaseConfig, u).raised = ""} :
            validateToUpTo(user, 2)
    \/ \E k \in 1..2 : invokeUpTo(k, 2)
    \/ \E i \in 1..2, line \in DispatchLines : lineReceived(i, line)
    \/ \E i \in 1..2 : eomReceived(i)
    \/ \E i \in 1..2 : connectionLost(i)
    \/ \E i \in 1..2, result \in {"Result", "Failure"} : fire(i, result)

SpecDispatch == Init /\ [][NextDispatch]_vars

-----------------------------------------------------------------------------
(* The sender-validation specification: validateFrom over allow-lists *)

InitFrom ==
    /\ config \in FromConfigs
    /\ heap = <<>>
    /\ ctors = <<>>
    /\ accs = <<>>
    /\ last = [op |-> "", raised |-> ""]
    /\ msg = NoMsg

NextFrom == \E ip \in ClientIPs : validateFrom(ip)

SpecFrom == InitFrom /\ [][NextFrom]_vars

-----------------------------------------------------------------------------
(* The header-rewrite specification: _munge_header applied, possibly more  *)
(* than once, to messages with any headers                                 *)

MungeHeaders ==
    { [name |-> "List-Id", value |-> "<old.example>"],
      [name |-> "list-id", value |-> "<other.example>"],
      [name |-> "List-Post", value |-> "<mailto:old@example>"],
      [name |-> "Subject", value |-> "hello"],
      [name |-> "Subject", value |-> "[eng+sales] hello"],
      [name |-> "Subject", value |-> "caf\\udce9"],
      [name |-> "Precedence", value |-> "bulk"] }

Accepted == {u \in Users : validateToResult(BaseConfig, u).raised = ""}

InitMunge ==
    /\ config = [BaseConfig EXCEPT
                    !.options = {"accept_from", "archive_addr", "server"}]
    /\ heap = <<>>
    /\ ctors = <<>>
    /\ accs = <<>>
    /\ last = [op |-> "", raised |-> ""]
    /\ msg \in {Rewritten(Message(h, <<>>), h, 0, encode("")) :
                    h \in SeqsUpTo(MungeHeaders, MaxHdrs)}

munge(user) ==
    /\ msg.rewrites < MaxMunge
    /\ LET self == SetMessage(Lambda(config, user, 0), 0)
       IN  msg' = Rewritten(
                    munge_header(Message(msg.headers, msg.payload), self, config),
                    msg.orig, msg.rewrites + 1, self.address)
    /\ last' = [op |-> "_munge_header", raised |-> ""]
    /\ UNCHANGED <<config, heap, ctors, accs>>

NextMunge == \E user \in Accepted : munge(user)

SpecMunge == InitMunge /\ [][NextMunge]_vars

-----------------------------------------------------------------------------
(* Helpers of the properties *)

AccIds == 1..Len(accs)

\* the values of the headers called `name` in a serialized message: the
\* header lines before the first blank line (what follows is the body)
HeaderValues(text, name) ==
    LET idx == {j \in 1..Len(text) :
                    /\ \A k \in 1..j : text[k].kind = "header"
                    /\ Lower(text[j].name) = Lower(name)}
    IN  [j \in idx |-> text[j].value]

Values(f) == {f[x] : x \in DOMAIN f}

\* msg[name] of a serialized message: the value of the first header called
\* `name`, as a set that is empty when there is none
First(f) == {f[x] : x \in {y \in DOMAIN f : \A z \in DOMAIN f : y <= z}}

Permutations_(n) == {p \in [1..n -> 1..n] : \A a, b \in 1..n : p[a] = p[b] => a = b}

Accepts(good, ip) == validateFromLoop(good, ip, 1).raised = ""

Archive(c) == IF has_option(c, "archive_addr") THEN {c.archive_addr} ELSE {}

\* the headers called `name` of a message, in their order
Named(m, name) ==
    Without(m.headers, (1..Len(m.headers)) \ Matching(m, name), 1)

\* msg[name]: the value of the first header called `name`, as a set that is
\* empty when there is none
Get(m, name) ==
    {m.headers[i].value :
        i \in {j \in Matching(m, name) : \A k \in Matching(m, name) : j <= k}}

\* the entries of `ran` made by the continuations called fn
Ran(ran, fn) == {j \in 1..Len(ran) : ran[j].fn = fn}

\* the pairs of a chain whose callback (errback) is a log function
LogCallbacks(cbs) == {j \in 1..Len(cbs) : cbs[j].callback.fn \in {"log.msg", "log.err"}}

LogErrbacks(cbs) == {j \in 1..Len(cbs) : cbs[j].errback.fn \in {"log.msg", "log.err"}}

\* the tag of the rewrite that was applied last to `msg`
LastTag(by) == Tag(parse(decode(by)).subject_tag)

-----------------------------------------------------------------------------
(* Properties *)

\* C1: once connectionLost has been called on a SetMessage before any of its
\* eomReceived calls returned, that object never calls sendmail, whatever is
\* called on it later (a later eomReceived included).
C1_NoSendAfterConnectionLost ==
    \A i \in AccIds : accs[i].lost => accs[i].sent = <<>>

C1_Witness ==
    \E i \in AccIds :
        /\ accs[i].lost
        /\ last = [op |-> "eomReceived", acc |-> i, raised |-> "AttributeError"]

\* C2: a SetMessage calls sendmail at most once in its lifetime, and exactly
\* once when an eomReceived call returns: a second eomReceived never sends.
C2_SendAtMostOnce ==
    \A i \in AccIds :
        /\ Len(accs[i].sent) <= 1
        /\ last = [op |-> "eomReceived", acc |-> i, raised |-> ""]
              => Len(accs[i].sent) = 1

C2_Witness ==
    \E i \in AccIds :
        /\ Len(accs[i].sent) = 1
        /\ last = [op |-> "eomReceived", acc |-> i, raised |-> "AttributeError"]

\* C3 as stated: once the parser of a SetMessage has been released (after
\* eomReceived or connectionLost), every further lineReceived, eomReceived
\* or connectionLost on it is rejected.
C3_Original ==
    [][\A i \in AccIds :
        ( /\ accs[i].msg_parser = None
          /\ last'.op \in {"lineReceived", "eomReceived", "connectionLost"}
          /\ last'.acc = i )
        => last'.raised # ""]_vars

\* C3 as amended: eomReceived and connectionLost always leave the parser
\* released; a released parser stays released and the object sends nothing
\* more; lineReceived and eomReceived on it raise AttributeError, while
\* connectionLost is accepted in every state.
C3_Amended ==
    [][\A i \in AccIds :
        /\ ( last'.op \in {"eomReceived", "connectionLost"} /\ last'.acc = i )
              => accs'[i].msg_parser = None
        /\ accs[i].msg_parser = None =>
              /\ accs'[i].msg_parser = None
              /\ accs'[i].sent = accs[i].sent
              /\ ( last'.op \in {"lineReceived", "eomReceived"} /\ last'.acc = i )
                    => last'.raised = "AttributeError"
              /\ ( last'.op = "connectionLost" /\ last'.acc = i )
                    => last'.raised = ""]_vars

C3_Witness ==
    \E i \in AccIds :
        /\ accs[i].sent # <<>>
        /\ accs[i].msg_parser = None
        /\ last = [op |-> "connectionLost", acc |-> i, raised |-> ""]

\* C4: validateFrom accepts exactly when the client IP lies in at least one
\* range of the allow-list, otherwise raises SMTPBadSender carrying the
\* client IP; the outcome is the same for every order of the entries; with
\* accept_from 10.0.0.0/8 it accepts 10.1.2.3 and rejects 192.168.1.1.
C4_AcceptIffInSomeRange ==
    last.op = "validateFrom" =>
        LET good == accept_from(config)
            member == \E j \in 1..Len(good) : InNetwork(last.ip, good[j])
        IN  /\ (last.raised = "") <=> member
            /\ last.raised # "" =>
                  last.raised = "SMTPBadSender" /\ last.arg = last.ip
            /\ \A p \in Permutations_(Len(good)) :
                  Accepts([j \in 1..Len(good) |-> good[p[j]]], last.ip)
                      <=> (last.raised = "")
            /\ ( good = <<Cidr(10, 0, 0, 0, 8)>> /\ last.ip = <<10, 1, 2, 3>> )
                  => last.raised = ""
            /\ ( good = <<Cidr(10, 0, 0, 0, 8)>> /\ last.ip = <<192, 168, 1, 1>> )
                  => last.raised = "SMTPBadSender"

C4_Witness ==
    /\ last.op = "validateFrom"
    /\ Len(accept_from(config)) = 2
    /\ last.raised = ""
    /\ last.matched = 2

\* C5: a recipient whose domain is not exactly the configured domain is
\* rejected with the "Incorrect domain" reason, whatever its local part is
\* and whatever the resolver would say about it.
C5_WrongDomainRejected ==
    ( last.op = "validateTo" /\ decode(last.user.domain) # config.domain ) =>
        /\ last.raised = "SMTPBadRcpt"
        /\ last.resp = "Incorrect domain: " \o BytesStr(last.user.domain)

C5_Witness ==
    /\ last.op = "validateTo"
    /\ last.user = User("a&&b", "other.org")
    /\ last.resp = "Incorrect domain: b'other.org'"

\* C6: a recipient of the right domain whose local part the resolver rejects
\* is refused with the resolver's message verbatim, and the refusal changes
\* nothing else: the recipients accepted so far, their messages and what they
\* have sent stay as they are.
C6_ParseErrorRejectsOnlyThatRecipient ==
    [][( /\ last'.op = "validateTo"
         /\ decode(last'.user.domain) = config.domain
         /\ ~parse(decode(last'.user.local)).ok )
       => /\ last'.raised = "SMTPBadRcpt"
          /\ last'.resp = parse(decode(last'.user.local)).error
          /\ UNCHANGED <<config, heap, ctors, accs>>]_vars

C6_Witness ==
    /\ last.op = "validateTo"
    /\ last.user = User("a&&b", ConfigDomain)
    /\ last.resp = "unexpected token '&' in a&&b"
    /\ Len(ctors) >= 1
    /\ \E i \in AccIds : accs[i].sent # <<>>

C8_OneListIdOneListPost ==
    msg.rewrites >= 1 =>
        LET m == Message(msg.headers, msg.payload)
            id == Matching(m, "list-id")
            post == Matching(m, "list-post")
        IN  /\ Cardinality(id) = 1
            /\ Cardinality(post) = 1
            /\ \A j \in id :
                  msg.headers[j].value = ListId(msg.by, config.domain)
            /\ \A j \in post :
                  msg.headers[j].value = ListPost(msg.by, config.domain)

C8_Witness ==
    /\ msg.rewrites = 2
    /\ Cardinality(Matching(Message(msg.orig, <<>>), "list-id")) = 2
    /\ Cardinality(Matching(Message(msg.headers, <<>>), "list-id")) = 1

C10_RecipientsAreSetPlusArchive ==
    \A i \in AccIds : \A k \in 1..Len(accs[i].sent) :
        accs[i].sent[k].to_addrs =
            parse(decode(accs[i].address)).recipient_set \cup Archive(config)

C10_Witness ==
    \E i \in AccIds : \E k \in 1..Len(accs[i].sent) :
        /\ has_option(config, "archive_addr")
        /\ parse(decode(accs[i].address)).recipient_set
              = {"e1@x.com", "s1@x.com"}
        /\ Cardinality(accs[i].sent[k].to_addrs) = 3
        /\ ArchiveAddr \in accs[i].sent[k].to_addrs

\* C11: a rewrite leaves a Subject that already starts with its tag as it
\* is, and puts the tag once in front of any other (encodable) Subject; so
\* the Subject never starts with the same tag twice, however often the
\* rewrite runs.
C11_TagOnce ==
    [][last'.op = "_munge_header" =>
        LET T == LastTag(msg'.by)
        IN  /\ \A s \in Get(msg, "subject") :
                  /\ StartsWith(s, T) => Get(msg', "subject") = {s}
                  /\ ( ~StartsWith(s, T) /\ s \notin Unencodable )
                        => Get(msg', "subject") = {T \o s}
            /\ \A t \in Get(msg', "subject") : ~StartsWith(t, T \o T)
            /\ Cardinality(Matching(msg', "subject"))
                  = Cardinality(Matching(msg, "subject"))]_vars

C11_Witness ==
    /\ msg.rewrites = 2
    /\ Get(Message(msg.orig, <<>>), "subject") = {"hello"}
    /\ Get(msg, "subject") = {"[eng+sales] hello"}

\* C12: the rewrite adds "Precedence: list" only to a message without a
\* Precedence header; the Precedence headers a message came with keep their
\* values and their number through any number of rewrites.
C12_PrecedenceOnlyWhenAbsent ==
    msg.rewrites >= 1 =>
        IF contains(Message(msg.orig, <<>>), "precedence")
        THEN Named(msg, "precedence") = Named(Message(msg.orig, <<>>), "precedence")
        ELSE Named(msg, "precedence") = <<[name |-> "Precedence", value |-> "list"]>>

C12_Witness ==
    /\ msg.rewrites = 2
    /\ Named(Message(msg.orig, <<>>), "precedence")
          = <<[name |-> "Precedence", value |-> "bulk"]>>
    /\ Named(msg, "precedence") = <<[name |-> "Precedence", value |-> "bulk"]>>

\* C13: when the tagged Subject cannot be encoded, eomReceived does not raise
\* the encoding error; with the outgoing server configured it returns and
\* sends once, and the message sent has the Subject headers as received,
\* a Precedence header, and the List-Id and List-Post of this recipient.
C13_EncodingFailureRecovered ==
    [][\A i \in AccIds :
        ( /\ accs[i].msg_parser # None
          /\ last'.op = "eomReceived" /\ last'.acc = i
          /\ Get(close(accs[i].msg_parser.fed), "subject") # {}
          /\ Get(close(accs[i].msg_parser.fed), "subject") \subseteq Unencodable )
        => /\ last'.raised \notin {"UnicodeError", "ValueError"}
           /\ has_option(config, "server") =>
                /\ last'.raised = ""
                /\ Len(accs'[i].sent) = Len(accs[i].sent) + 1
                /\ LET text == accs'[i].sent[Len(accs'[i].sent)].text
                       sent == close(text)
                   IN  /\ Named(sent, "subject")
                            = Named(close(accs[i].msg_parser.fed), "subject")
                       /\ Named(sent, "precedence")
                            = <<[name |-> "Precedence", value |-> "list"]>>
                       /\ Named(sent, "list-id")
                            = <<[name |-> "List-Id",
                                 value |-> ListId(accs[i].address, config.domain)]>>
                       /\ Named(sent, "list-post")
                            = <<[name |-> "List-Post",
                                 value |-> ListPost(accs[i].address,
                                                    config.domain)]>>]_vars

C13_Witness ==
    \E i \in AccIds :
        /\ last = [op |-> "eomReceived", acc |-> i, raised |-> ""]
        /\ Len(accs[i].sent) = 1
        /\ Get(close(accs[i].sent[1].text), "subject") = Unencodable
        /\ accs[i].sent[1].log.subject = "Subject: caf\\udce9"

\* C14: the handle eomReceived returns carries exactly one success
\* continuation (log.msg) and one failure continuation (log.err), both
\* carrying the address bound to the SetMessage; when the send ends, exactly
\* one of the two runs: log.msg with "Success <address>" when it succeeded,
\* log.err with "Failure <address>" when it failed.
C14_OneContinuationRuns ==
    [][\A i \in 1..Len(accs') :
        /\ ( last'.op = "eomReceived" /\ last'.acc = i /\ last'.raised = "" ) =>
              LET cbs == accs'[i].sent[Len(accs'[i].sent)].send.callbacks
              IN  /\ Cardinality(LogCallbacks(cbs)) = 1
                  /\ Cardinality(LogErrbacks(cbs)) = 1
                  /\ \A j \in LogCallbacks(cbs) : cbs[j].callback =
                        Callable("log.msg", "Success " \o BytesStr(accs'[i].address))
                  /\ \A j \in LogErrbacks(cbs) : cbs[j].errback =
                        Callable("log.err", "Failure " \o BytesStr(accs'[i].address))
        /\ ( last'.op \in {"callback", "errback"} /\ last'.acc = i ) =>
              /\ Cardinality(Ran(last'.ran, "log.msg") \cup Ran(last'.ran, "log.err")) = 1
              /\ last'.op = "callback" => \A j \in Ran(last'.ran, "log.msg") :
                    last'.ran[j] = [fn |-> "log.msg", arg |-> "Result",
                        text |-> "Success " \o BytesStr(accs'[i].address)]
              /\ last'.op = "errback" => \A j \in Ran(last'.ran, "log.err") :
                    last'.ran[j] = [fn |-> "log.err", arg |-> "Failure",
                        text |-> "Failure " \o BytesStr(accs'[i].address)]
              /\ last'.op = "callback" => Ran(last'.ran, "log.err") = {}
              /\ last'.op = "errback" => Ran(last'.ran, "log.msg") = {}]_vars

C14_Witness ==
    /\ last.op = "callback"
    /\ last.ran[1] = [fn |-> "log.msg", arg |-> "Result",
                      text |-> "Success b'eng+sales'"]
    /\ \E i \in AccIds : accs[i].address = encode("arch") /\ accs[i].sent # <<>>
                           /\ ~accs[i].sent[1].send.called

\* C15 as stated: when the failure continuation runs, the client has already
\* been told that the message was accepted.
C15_Original ==
    last.op = "errback" =>
        \E a \in Ran(last.ran, "sendCode") :
            \A b \in Ran(last.ran, "log.err") : a < b

\* C15 as amended: a failed send runs the failure continuation, which logs
\* "Failure <address>" and consumes the failure; the acknowledgment, which
\* waits for the returned handle, comes after it and is "accepted", so the
\* client never sees the failure.
C15_Amended ==
    last.op = "errback" =>
        last.ran = << [fn |-> "log.err", arg |-> "Failure",
                       text |-> "Failure " \o BytesStr(accs[last.acc].address)],
                      [fn |-> "sendCode", arg |-> "None",
                       text |-> "250 Delivery in progress"] >>

C15_Witness ==
    /\ last.op = "errback"
    /\ Ran(last.ran, "log.err") = {1}
    /\ Ran(last.ran, "sendCode") = {2}
    /\ accs[last.acc].address = encode("eng+sales")

\* C16 as stated: every eomReceived on a SetMessage whose parser is open
\* returns a handle (the call does not raise and sendmail has been called).
C16_Original ==
    [][\A i \in AccIds :
        ( /\ accs[i].msg_parser # None
          /\ last'.op = "eomReceived" /\ last'.acc = i )
        => /\ last'.raised = ""
           /\ Len(accs'[i].sent) = Len(accs[i].sent) + 1]_vars

\* C20: whichever way the outbound send ends, the handle eomReceived
\* returned ends with a success: the continuation attached after the two
\* log continuations is called with None, not with the failure, and the
\* final result of the handle is not a failure.
C20_HandleEndsInSuccess ==
    /\ \A i \in AccIds : \A k \in 1..Len(accs[i].sent) :
            accs[i].sent[k].send.called => accs[i].sent[k].send.result = "None"
    /\ last.op \in {"callback", "errback"} =>
            /\ Ran(last.ran, "sendCode") # {}
            /\ \A j \in Ran(last.ran, "sendCode") : last.ran[j].arg = "None"

C20_Witness ==
    /\ last.op = "errback"
    /\ accs[last.acc].sent[1].send.called
    /\ accs[last.acc].sent[1].send.result = "None"
    /\ accs[last.acc].address = encode("arch")

\* C17 as stated: no operation changes the configuration or a recipient set
\* the resolver has handed out.
C17_Original ==
    [][/\ config' = config
       /\ \A r \in 1..Len(heap) : heap'[r] = heap[r]]_vars

\* C18: the messages of one transaction are independent: a call on one
\* SetMessage (or the validation or construction of another recipient)
\* leaves every other SetMessage as it is, and what a SetMessage sends is
\* determined by its own lines, address and tag, the resolver's answer for
\* its address and the configuration, whatever happened to the others.
C18_AccumulatorsIndependent ==
    [][\A i \in AccIds :
        /\ ( \/ last'.op \in {"validateTo", "invoke"}
             \/ /\ last'.op \in {"lineReceived", "eomReceived",
                                  "connectionLost", "callback", "errback"}
                /\ last'.acc # i )
           => accs'[i] = accs[i]
        /\ ( /\ accs[i].msg_parser # None
             /\ last'.op = "eomReceived" /\ last'.acc = i
             /\ last'.raised = "" )
           => LET d == accs'[i].sent[Len(accs'[i].sent)]
              IN  /\ d.to_addrs = parse(decode(accs[i].address)).recipient_set
                                      \cup Archive(config)
                  /\ d.text = as_string(munge_header(
                                  close(accs[i].msg_parser.fed),
                                  [address |-> accs[i].address,
                                   subject_tag |->
                                     parse(decode(accs[i].address)).subject_tag],
                                  config))]_vars

C18_Witness ==
    \E i, j \in AccIds :
        /\ accs[i].address # accs[j].address
        /\ accs[i].lost
        /\ last = [op |-> "eomReceived", acc |-> j, raised |-> ""]
        /\ Len(accs[j].sent) = 1

=============================================================================
